---- MODULE Spec2Model ----
(***************************************************************************)
(* A model of sync_overlay.py: the timestamp normalizer (parse_timestamp), *)
(* the telemetry sequencer (normalize_entries), the caption renderer       *)
(* (build_srt, srt_timestamp) and the command pipeline (main,              *)
(* process_folder).                                                        *)
(*                                                                         *)
(* Representation.  A Python str is a sequence of one-character strings.   *)
(* A Python float is a fixed-point value: NaN, an infinity, or a finite    *)
(* number  w + f / TicksPerSecond  with w an integer (the floor) and f in  *)
(* 0 .. TicksPerSecond-1.  A datetime is a calendar date, a second of the  *)
(* day, a sub-second tick count and, when aware, a UTC offset.  The        *)
(* library calls (float, datetime.fromisoformat, datetime.strptime,        *)
(* list.sort) follow CPython 3.11 on the texts the inputs below contain.   *)
(***************************************************************************)
EXTENDS Integers, Sequences, FiniteSets, TLC

VARIABLES
    pc,            \* position of the run inside main / process_folder
    folder,        \* args.folder: whether it is a directory
    srt_only,      \* args.srt_only
    video,         \* the path find_video_file returned (None before)
    records,       \* the list load_metadata returned (None before)
    entries,       \* the list normalize_entries returned (None before)
    srt_file,      \* content of the subtitle file (None while not written)
    ffmpeg_calls,  \* number of times run_ffmpeg started the encoder
    exc,           \* the exception raised inside process_folder (None if none)
    exit,          \* how main ended (None while running)
    stdout,        \* lines printed by main
    value,         \* input of a parse_timestamp / srt_timestamp application
    out            \* its result (None before the application)

vars == <<pc, folder, srt_only, video, records, entries, srt_file, ffmpeg_calls,
          exc, exit, stdout, value, out>>

None == [k |-> "None"]
ValueError == [k |-> "ValueError"]
IsError(x) == x.k = "error"
Ok(list) == [k |-> "ok", list |-> list]

(***************************************************************************)
(* Fixed-point floats.                                                     *)
(***************************************************************************)
TicksPerMs == 10
MsPerSecond == 1000
TicksPerSecond == MsPerSecond * TicksPerMs
FracDigits == 4      \* decimal digits of one second held by the ticks

NaN == [k |-> "nan"]
Inf(neg) == [k |-> "inf", neg |-> neg]
Fin(w, f) == [k |-> "fin", w |-> w, f |-> f]
Whole(n) == Fin(n, 0)

\* x < y on floats: every comparison with NaN is false.
LtF(x, y) ==
    IF x.k = "nan" \/ y.k = "nan" THEN FALSE
    ELSE IF x.k = "inf" THEN x.neg /\ ~(y.k = "inf" /\ y.neg)
    ELSE IF y.k = "inf" THEN ~y.neg
    ELSE x.w < y.w \/ (x.w = y.w /\ x.f < y.f)

\* x + 1.0
AddOne(x) == IF x.k = "fin" THEN Fin(x.w + 1, x.f) ELSE x

\* -x for a finite x
NegF(x) == IF x.f = 0 THEN Fin(-x.w, 0) ELSE Fin(-x.w - 1, TicksPerSecond - x.f)

\* round(): the nearest millisecond of a count of ticks, ties to even
RoundMs(f) ==
    LET q == f \div TicksPerMs
        r == f % TicksPerMs
    IN IF 2 * r < TicksPerMs THEN q
       ELSE IF 2 * r > TicksPerMs THEN q + 1
       ELSE IF q % 2 = 0 THEN q ELSE q + 1

(***************************************************************************)
(* Strings as sequences of characters.                                     *)
(***************************************************************************)
DigitChars == <<"0", "1", "2", "3", "4", "5", "6", "7", "8", "9">>
IsDigit(c) == \E i \in 1..10 : DigitChars[i] = c
DigitVal(c) == (CHOOSE i \in 1..10 : DigitChars[i] = c) - 1
AllDigits(s) == \A i \in 1..Len(s) : IsDigit(s[i])

\* int() of a text of digits
ToNat(s) ==
    LET v[i \in 0..Len(s)] == IF i = 0 THEN 0 ELSE 10 * v[i - 1] + DigitVal(s[i])
    IN v[Len(s)]

\* n zeros, none when n <= 0
Zeros(n) == [i \in 1..(IF n > 0 THEN n ELSE 0) |-> "0"]

Tail0(s, i) == SubSeq(s, i, Len(s))       \* s[i-1:] of Python, i 1-based
Head0(s, n) == SubSeq(s, 1, n)            \* s[:n]

\* Index of the first occurrence of a character of cs in s, 0 if none.
Find(s, cs) == IF \E i \in 1..Len(s) : s[i] \in cs
               THEN CHOOSE i \in 1..Len(s) :
                        s[i] \in cs /\ \A j \in 1..(i - 1) : s[j] \notin cs
               ELSE 0

\* the text before, and after, the first occurrence of a character of cs
Before(s, cs) == IF Find(s, cs) = 0 THEN s ELSE Head0(s, Find(s, cs) - 1)
After(s, cs) == IF Find(s, cs) = 0 THEN <<>> ELSE Tail0(s, Find(s, cs) + 1)

IsSpace(c) == c = " "

\* str.strip(): drop leading and trailing whitespace.
strip(s) ==
    IF \A i \in 1..Len(s) : IsSpace(s[i]) THEN <<>>
    ELSE SubSeq(s,
                CHOOSE i \in 1..Len(s) :
                    ~IsSpace(s[i]) /\ \A j \in 1..(i - 1) : IsSpace(s[j]),
                CHOOSE i \in 1..Len(s) :
                    ~IsSpace(s[i]) /\ \A j \in (i + 1)..Len(s) : IsSpace(s[j]))

\* str.endswith("Z")
EndsWithZ(s) == Len(s) > 0 /\ s[Len(s)] = "Z"

\* the decimal digits of a natural number
RECURSIVE Digits(_)
Digits(n) == IF n < 10 THEN <<DigitChars[n + 1]>>
             ELSE Append(Digits(n \div 10), DigitChars[(n % 10) + 1])

\* format spec 0<width>: zero-padded on the left to at least width
PadTo(ds, width) == Zeros(width - Len(ds)) \o ds
Pad(n, width) == PadTo(Digits(n), width)

(***************************************************************************)
(* float(str): [sign] (nan | inf | infinity | decimal [exponent]), or      *)
(* ValueError.  Digits beyond the tick resolution are dropped.             *)
(***************************************************************************)
IsSign(c) == c \in {"+", "-"}
ExpChars == {"e", "E"}

Unsigned(t) == IF Len(t) > 0 /\ IsSign(t[1]) THEN Tail0(t, 2) ELSE t
IsNegative(t) == Len(t) > 0 /\ t[1] = "-"

\* digits [ "." digits ] or "." digits: at least one digit in all
IsDecimal(m) ==
    /\ AllDigits(Before(m, {"."}))
    /\ AllDigits(After(m, {"."}))
    /\ Len(Before(m, {"."})) + Len(After(m, {"."})) > 0

\* [sign] digits+
IsExponent(e) == Len(Unsigned(e)) > 0 /\ AllDigits(Unsigned(e))
ExponentVal(e) == (IF IsNegative(e) THEN -1 ELSE 1) * ToNat(Unsigned(e))

\* sub-second ticks of a fraction's digits
FracTicks(ds) == ToNat(Head0(ds \o Zeros(FracDigits), FracDigits))

\* the value of the digits all with cut of them left of the point
ShiftedVal(all, cut) == Fin(ToNat(Head0(all, cut)), FracTicks(Tail0(all, cut + 1)))

\* integer digits ip and fraction digits fp, scaled by 10^x
ScaledVal(ip, fp, x) ==
    ShiftedVal(Zeros(-(Len(ip) + x)) \o ip \o fp \o Zeros(x - Len(fp)),
               IF Len(ip) + x < 0 THEN 0 ELSE Len(ip) + x)

Signed(v, neg) == IF neg THEN NegF(v) ELSE v

float_of_decimal(m, e, hasExp, neg) ==
    IF IsDecimal(m) /\ (~hasExp \/ IsExponent(e))
    THEN Signed(ScaledVal(Before(m, {"."}), After(m, {"."}),
                          IF hasExp THEN ExponentVal(e) ELSE 0), neg)
    ELSE ValueError

float_of_unsigned(u, neg) ==
    IF u = <<"n", "a", "n">> THEN NaN
    ELSE IF u \in {<<"i", "n", "f">>, <<"i", "n", "f", "i", "n", "i", "t", "y">>} THEN Inf(neg)
    ELSE float_of_decimal(Before(u, ExpChars), After(u, ExpChars),
                          Find(u, ExpChars) # 0, neg)

float_of_stripped(t) == float_of_unsigned(Unsigned(t), IsNegative(t))

float_of_str(s) == float_of_stripped(strip(s))

\* float() of a native JSON number given in whole seconds
float_of_number(n) == Whole(n)

(***************************************************************************)
(* datetime values: the calendar date, sec the second of the day, f the    *)
(* sub-second ticks; an aware value carries its UTC offset in seconds.     *)
(***************************************************************************)
SecondsPerMinute == 60
SecondsPerHour == 3600
SecondsPerDay == 24 * SecondsPerHour

Datetime(y, m, d, sec, f, aware, off) ==
    [k |-> "dt", y |-> y, m |-> m, d |-> d, sec |-> sec, f |-> f,
     aware |-> aware, off |-> off]

IsDatetime(x) == x.k = "dt"

IsLeap(y) == y % 4 = 0 /\ (y % 100 # 0 \/ y % 400 = 0)

DaysInMonth(y, m) ==
    IF m = 2 THEN (IF IsLeap(y) THEN 29 ELSE 28)
    ELSE IF m \in {4, 6, 9, 11} THEN 30 ELSE 31

\* days of the year before the first of month m, in a common year
DaysBefore == <<0, 31, 59, 90, 120, 151, 181, 212, 243, 273, 304, 334>>

\* the proleptic Gregorian ordinal: 0001-01-01 is day 1
Ordinal(y, m, d) ==
    365 * (y - 1) + ((y - 1) \div 4) - ((y - 1) \div 100) + ((y - 1) \div 400)
    + DaysBefore[m] + (IF m > 2 /\ IsLeap(y) THEN 1 ELSE 0) + d

ValidDate(y, m, d) == y >= 1 /\ m \in 1..12 /\ d >= 1 /\ d <= DaysInMonth(y, m)

\* exactly two digits
Is2(s) == Len(s) = 2 /\ AllDigits(s)

time_of_fields(hh, mm, ss, ff) ==
    IF hh <= 23 /\ mm <= 59 /\ ss <= 59
    THEN [k |-> "time", sec |-> hh * SecondsPerHour + mm * SecondsPerMinute + ss,
          f |-> ff]
    ELSE ValueError

\* the shapes hh, hh:mm, hh:mm:ss and hh:mm:ss.f+
TimeShape(s) ==
    /\ Len(s) >= 2 /\ Is2(Head0(s, 2))
    /\ Len(s) > 2 => (Len(s) >= 5 /\ s[3] = ":" /\ Is2(SubSeq(s, 4, 5)))
    /\ Len(s) > 5 => (Len(s) >= 8 /\ s[6] = ":" /\ Is2(SubSeq(s, 7, 8)))
    /\ Len(s) > 8 => (Len(s) >= 10 /\ s[9] = "." /\ AllDigits(Tail0(s, 10)))

\* the time of datetime.fromisoformat
iso_time(s) ==
    IF TimeShape(s)
    THEN time_of_fields(ToNat(Head0(s, 2)),
                        IF Len(s) >= 5 THEN ToNat(SubSeq(s, 4, 5)) ELSE 0,
                        IF Len(s) >= 8 THEN ToNat(SubSeq(s, 7, 8)) ELSE 0,
                        IF Len(s) >= 10 THEN FracTicks(Tail0(s, 10)) ELSE 0)
    ELSE ValueError

offset_of_fields(hh, mm, neg) ==
    IF hh * SecondsPerHour + mm * SecondsPerMinute < SecondsPerDay
    THEN [k |-> "offset",
          sec |-> (IF neg THEN -1 ELSE 1) * (hh * SecondsPerHour + mm * SecondsPerMinute)]
    ELSE ValueError

\* hh:mm after the sign of a UTC offset; the offset stays below 24 hours
iso_offset(s, neg) ==
    IF Len(s) = 5 /\ Is2(Head0(s, 2)) /\ s[3] = ":" /\ Is2(Tail0(s, 4))
    THEN offset_of_fields(ToNat(Head0(s, 2)), ToNat(Tail0(s, 4)), neg)
    ELSE ValueError

Naive == [k |-> "naive", sec |-> 0]
SignChars == {"+", "-"}

\* the UTC offset of a time text, Naive when it has none
iso_tzinfo(tstr) ==
    IF Find(tstr, SignChars) = 0 THEN Naive
    ELSE iso_offset(After(tstr, SignChars), tstr[Find(tstr, SignChars)] = "-")

iso_combine(y, m, d, tm, off) ==
    IF tm.k = "ValueError" \/ off.k = "ValueError" THEN ValueError
    ELSE Datetime(y, m, d, tm.sec, tm.f, off.k = "offset", off.sec)

\* rest is what follows the date: nothing, or any one separator character
\* and a time with an optional UTC offset
iso_with_date(y, m, d, rest) ==
    IF ~ValidDate(y, m, d) THEN ValueError
    ELSE IF Len(rest) = 0 THEN Datetime(y, m, d, 0, 0, FALSE, 0)
    ELSE iso_combine(y, m, d, iso_time(Before(Tail0(rest, 2), SignChars)),
                     iso_tzinfo(Tail0(rest, 2)))

IsExtendedDate(s) ==
    /\ Len(s) >= 10 /\ AllDigits(Head0(s, 4)) /\ s[5] = "-"
    /\ Is2(SubSeq(s, 6, 7)) /\ s[8] = "-" /\ Is2(SubSeq(s, 9, 10))

IsBasicDate(s) == Len(s) >= 8 /\ AllDigits(Head0(s, 8))

\* datetime.fromisoformat: YYYY-MM-DD or YYYYMMDD, then the rest
fromisoformat(s) ==
    IF IsExtendedDate(s)
    THEN iso_with_date(ToNat(Head0(s, 4)), ToNat(SubSeq(s, 6, 7)),
                       ToNat(SubSeq(s, 9, 10)), Tail0(s, 11))
    ELSE IF IsBasicDate(s)
    THEN iso_with_date(ToNat(Head0(s, 4)), ToNat(SubSeq(s, 5, 6)),
                       ToNat(SubSeq(s, 7, 8)), Tail0(s, 9))
    ELSE ValueError

\* One or two digits, as the %H, %M and %S directives of strptime accept.
Is12(s) == Len(s) \in {1, 2} /\ AllDigits(s)

\* the fields of a clock text; the date of the result is 1900-01-01
clock_value(h, mi, se, fr, frac) ==
    IF /\ Is12(h) /\ Is12(mi) /\ Is12(se)
       /\ frac => (Len(fr) \in 1..6 /\ AllDigits(fr))
       /\ ToNat(h) <= 23 /\ ToNat(mi) <= 59 /\ ToNat(se) <= 59
    THEN Datetime(1900, 1, 1,
                  ToNat(h) * SecondsPerHour + ToNat(mi) * SecondsPerMinute + ToNat(se),
                  FracTicks(fr), FALSE, 0)
    ELSE ValueError

clock_fields(h, mi, r, frac) ==
    IF ~frac THEN clock_value(h, mi, r, <<>>, FALSE)
    ELSE IF Find(r, {"."}) = 0 THEN ValueError
    ELSE clock_value(h, mi, Before(r, {"."}), After(r, {"."}), TRUE)

\* datetime.strptime(value, "%H:%M:%S") and, with frac, "%H:%M:%S.%f":
\* the whole text must match
strptime_clock(s, frac) ==
    IF Find(s, {":"}) = 0 \/ Find(After(s, {":"}), {":"}) = 0 THEN ValueError
    ELSE clock_fields(Before(s, {":"}), Before(After(s, {":"}), {":"}),
                      After(After(s, {":"}), {":"}), frac)

(***************************************************************************)
(* parse_timestamp.  A timestamp value is a native number                  *)
(* [t |-> "number", n |-> whole seconds] or a string                       *)
(* [t |-> "str", s |-> characters].  The result is a float (Numeric), a    *)
(* datetime (Absolute) or the ValueError carrying the trimmed text.        *)
(***************************************************************************)
Number(n) == [t |-> "number", n |-> n]
Str(s) == [t |-> "str", s |-> s]

UnsupportedTimestampFormat(s) ==
    [k |-> "error", type |-> "ValueError",
     msg |-> "Unsupported timestamp format", arg |-> s]

\* iso_candidate of parse_timestamp: a trailing Z becomes +00:00
iso_candidate(s) ==
    IF EndsWithZ(s) THEN Head0(s, Len(s) - 1) \o <<"+", "0", "0", ":", "0", "0">> ELSE s

\* The attempts of lines 54-77 in the order their results are taken: num is
\* float(value), iso fromisoformat(iso_candidate), hmsf and hms the two
\* strptime calls; each is ValueError when the attempt raised.
first_match_iso_first(num, iso, hmsf, hms, t) ==
    IF iso.k # "ValueError" THEN iso
    ELSE IF num.k # "ValueError" THEN num
    ELSE IF hmsf.k # "ValueError" THEN hmsf
    ELSE IF hms.k # "ValueError" THEN hms
    ELSE UnsupportedTimestampFormat(t)

first_match(num, iso, hmsf, hms, t) ==
    IF num.k # "ValueError" THEN num
    ELSE IF iso.k # "ValueError" THEN iso
    ELSE IF hmsf.k # "ValueError" THEN hmsf
    ELSE IF hms.k # "ValueError" THEN hms
    ELSE UnsupportedTimestampFormat(t)

\* lines 52-79: t is value.strip()
parse_stripped(t) ==
    first_match(float_of_stripped(t), fromisoformat(iso_candidate(t)),
                strptime_clock(t, TRUE), strptime_clock(t, FALSE), t)

parse_timestamp(v) ==
    IF v.t = "number" THEN float_of_number(v.n)
    ELSE parse_stripped(strip(v.s))

(***************************************************************************)
(* Rendering and arithmetic of floats and datetimes.                       *)
(***************************************************************************)
\* the digits of a non-negative value a with three decimals
format_abs_3f(a, ms) ==
    Digits(IF ms = MsPerSecond THEN a.w + 1 ELSE a.w) \o <<".">>
    \o Pad(IF ms = MsPerSecond THEN 0 ELSE ms, 3)

\* f"{numeric:.3f}s"
format_3f_s(x) ==
    IF x.k = "nan" THEN <<"n", "a", "n", "s">>
    ELSE IF x.k = "inf" THEN (IF x.neg THEN <<"-", "i", "n", "f", "s">> ELSE <<"i", "n", "f", "s">>)
    ELSE IF x.w < 0 THEN <<"-">> \o format_abs_3f(NegF(x), RoundMs(NegF(x).f)) \o <<"s">>
    ELSE format_abs_3f(x, RoundMs(x.f)) \o <<"s">>

\* HH:MM of a UTC offset of a seconds
format_offset(a) ==
    Pad(a \div SecondsPerHour, 2) \o <<":">>
    \o Pad((a % SecondsPerHour) \div SecondsPerMinute, 2)

\* datetime.isoformat(): YYYY-MM-DDTHH:MM:SS[.ffffff][+HH:MM]
isoformat(t) ==
    Pad(t.y, 4) \o <<"-">> \o Pad(t.m, 2) \o <<"-">> \o Pad(t.d, 2) \o <<"T">>
    \o Pad(t.sec \div SecondsPerHour, 2) \o <<":">>
    \o Pad((t.sec % SecondsPerHour) \div SecondsPerMinute, 2) \o <<":">>
    \o Pad(t.sec % SecondsPerMinute, 2)
    \o (IF t.f = 0 THEN <<>> ELSE <<".">> \o Pad(t.f, FracDigits) \o <<"0", "0">>)
    \o (IF ~t.aware THEN <<>>
        ELSE IF t.off < 0 THEN <<"-">> \o format_offset(-t.off)
        ELSE <<"+">> \o format_offset(t.off))

\* The instant of a datetime on the UTC time line (an aware value) or on its
\* own clock (a naive one): a day number, a second of that day, the ticks.
instant_of(ordinal, sec, f) ==
    [day |-> ordinal + (sec \div SecondsPerDay), sec |-> sec % SecondsPerDay, f |-> f]

Instant(t) == instant_of(Ordinal(t.y, t.m, t.d), t.sec - t.off, t.f)

LtI(a, b) ==
    \/ a.day < b.day
    \/ a.day = b.day /\ a.sec < b.sec
    \/ a.day = b.day /\ a.sec = b.sec /\ a.f < b.f

\* a < b on datetimes that are both naive or both aware
LtD(a, b) == LtI(Instant(a), Instant(b))

TypeError == [k |-> "error", type |-> "TypeError",
              msg |-> "can't compare offset-naive and offset-aware datetimes",
              arg |-> <<>>]

\* min(ts for ts, _ in datetime_entries): the first least element; comparing
\* a naive with an aware datetime raises TypeError.
RECURSIVE min_from(_, _, _)
min_from(ts, i, best) ==
    IF i > Len(ts) THEN best
    ELSE IF ts[i].aware # best.aware THEN TypeError
    ELSE min_from(ts, i + 1, IF LtD(ts[i], best) THEN ts[i] ELSE best)

\* taking the first timestamp as the start
first_datetime(ts) == ts[1]

min_datetime(ts) == min_from(ts, 2, ts[1])

seconds_between(a, b) ==
    IF a.f >= b.f
    THEN Fin((a.day - b.day) * SecondsPerDay + (a.sec - b.sec), a.f - b.f)
    ELSE Fin((a.day - b.day) * SecondsPerDay + (a.sec - b.sec) - 1,
             TicksPerSecond + a.f - b.f)

\* (a - b).total_seconds()
total_seconds(a, b) == seconds_between(Instant(a), Instant(b))

(***************************************************************************)
(* Telemetry records and entries.  A record maps each of its four keys to  *)
(* a JSON value: a number, a string, null, or Absent when the key is not   *)
(* in the mapping.                                                         *)
(***************************************************************************)
Absent == [t |-> "absent"]
Null == [t |-> "null"]

Record(ts, speed, lat, lon) ==
    [timestamp |-> ts, speed |-> speed, latitude |-> lat, longitude |-> lon]

TelemetryEntry(offset, display, speed, lat, lon) ==
    [offset_seconds |-> offset, display_timestamp |-> display,
     speed |-> speed, latitude |-> lat, longitude |-> lon]

none_if_error(x) == IF x.k = "ValueError" THEN None ELSE x

\* _coerce_optional_float(data.get(key))
coerce_optional_float(v) ==
    IF v.t \in {"absent", "null"} THEN None
    ELSE IF v.t = "number" THEN float_of_number(v.n)
    ELSE none_if_error(float_of_str(v.s))

MissingTimestampField ==
    [k |-> "error", type |-> "ValueError",
     msg |-> "Each telemetry entry must include a 'timestamp' field", arg |-> <<>>]

MixedTimestampFormats ==
    [k |-> "error", type |-> "ValueError",
     msg |-> "Mixing absolute datetime strings with raw numeric seconds is not supported",
     arg |-> <<>>]

(***************************************************************************)
(* list.sort(key=...) of CPython on a short list: the leading run is       *)
(* found (and reversed when strictly descending), then the rest is placed  *)
(* by binary insertion.  Only  key(a) < key(b)  is ever asked.             *)
(***************************************************************************)
SortKey(e) == e.offset_seconds

KeyLt(a, b) == LtF(SortKey(a), SortKey(b))

Reverse(s) == [i \in 1..Len(s) |-> s[Len(s) + 1 - i]]

\* the length of the run that starts the list (at least two elements):
\* strictly descending when desc, otherwise non-descending
run_length(s, desc) ==
    CHOOSE n \in 2..Len(s) :
        /\ \A j \in 3..n : KeyLt(s[j], s[j - 1]) = desc
        /\ n < Len(s) => KeyLt(s[n + 1], s[n]) # desc

run_reversed(s, n, desc) ==
    [list |-> IF desc THEN Reverse(SubSeq(s, 1, n)) \o SubSeq(s, n + 1, Len(s)) ELSE s,
     n |-> n]

\* the list with its leading run in ascending order, and the run's length
count_run(s) ==
    IF Len(s) <= 1 THEN [list |-> s, n |-> Len(s)]
    ELSE run_reversed(s, run_length(s, KeyLt(s[2], s[1])), KeyLt(s[2], s[1]))

RECURSIVE bisect(_, _, _, _)
\* the insertion point of pivot in s[l .. r-1]: after every element that is
\* not greater than it
bisect(s, pivot, l, r) ==
    IF l >= r THEN l
    ELSE IF KeyLt(pivot, s[l + ((r - l) \div 2)])
    THEN bisect(s, pivot, l, l + ((r - l) \div 2))
    ELSE bisect(s, pivot, l + ((r - l) \div 2) + 1, r)

\* s with s[start] moved to position l <= start
insert_at(s, start, l) ==
    SubSeq(s, 1, l - 1) \o <<s[start]>> \o SubSeq(s, l, start - 1)
    \o SubSeq(s, start + 1, Len(s))

RECURSIVE binarysort(_, _)
\* s[1 .. start-1] is in order; insert s[start], s[start+1], ...
binarysort(s, start) ==
    IF start > Len(s) THEN s
    ELSE binarysort(insert_at(s, start, bisect(s, s[start], 1, start)), start + 1)

sort_from_run(r) == binarysort(r.list, r.n + 1)


sort_by_offset(s) == sort_from_run(count_run(s))

(***************************************************************************)
(* normalize_entries                                                       *)
(***************************************************************************)
\* one pass of the loop of lines 84-87: what record r appends to parsed, or
\* the error it raises
parse_record(r) ==
    IF r.timestamp = Absent THEN MissingTimestampField
    ELSE parse_timestamp(r.timestamp)

\* checking every record for the key before any timestamp is parsed
missing_first_or_all(rs) ==
    IF \E i \in 1..Len(rs) : rs[i] = MissingTimestampField THEN MissingTimestampField
    ELSE IF \E i \in 1..Len(rs) : IsError(rs[i])
    THEN rs[CHOOSE i \in 1..Len(rs) :
                IsError(rs[i]) /\ \A j \in 1..(i - 1) : ~IsError(rs[j])]
    ELSE [k |-> "parsed", ts |-> rs]

\* the loop stops at the first record that raises
first_error_or_all(rs) ==
    IF \E i \in 1..Len(rs) : IsError(rs[i])
    THEN rs[CHOOSE i \in 1..Len(rs) :
                IsError(rs[i]) /\ \A j \in 1..(i - 1) : ~IsError(rs[j])]
    ELSE [k |-> "parsed", ts |-> rs]

parse_loop(batch) ==
    first_error_or_all([i \in 1..Len(batch) |-> parse_record(batch[i])])

\* looking at the first timestamp only
has_datetimes_first(ts) == Len(ts) > 0 /\ IsDatetime(ts[1])

\* has_datetimes of line 89
has_datetimes(ts) == \E i \in 1..Len(ts) : IsDatetime(ts[i])

\* line 94: a timestamp that is no datetime
has_numeric(ts) == \E i \in 1..Len(ts) : ~IsDatetime(ts[i])

entry_of(data, offset, display) ==
    TelemetryEntry(offset, display,
                   coerce_optional_float(data.speed),
                   coerce_optional_float(data.latitude),
                   coerce_optional_float(data.longitude))

\* the offset of a timestamp in absolute mode: line 98
absolute_offset(t, start) == total_seconds(t, start)

SubtractTypeError ==
    [k |-> "error", type |-> "TypeError",
     msg |-> "can't subtract offset-naive and offset-aware datetimes", arg |-> <<>>]

\* lines 96-107; ts - start of line 98 raises TypeError when one datetime
\* is naive and the other aware
absolute_entries(batch, ts, start) ==
    IF IsError(start) THEN start
    ELSE IF \E i \in 1..Len(ts) : ts[i].aware # start.aware THEN SubtractTypeError
    ELSE Ok([i \in 1..Len(batch) |->
                entry_of(batch[i], absolute_offset(ts[i], start),
                         isoformat(ts[i]))])

FloatTypeError ==
    [k |-> "error", type |-> "TypeError",
     msg |-> "float() argument must be a string or a real number", arg |-> <<>>]

\* lines 109-119; float(ts) of line 110 raises TypeError on a datetime
numeric_entries(batch, ts) ==
    IF \E i \in 1..Len(ts) : IsDatetime(ts[i]) THEN FloatTypeError
    ELSE Ok([i \in 1..Len(batch) |-> entry_of(batch[i], ts[i], format_3f_s(ts[i]))])

\* lines 89-119 on the result p of the loop
entries_of(batch, p) ==
    IF IsError(p) THEN p
    ELSE IF ~has_datetimes(p.ts) THEN numeric_entries(batch, p.ts)
    ELSE IF has_numeric(p.ts) THEN MixedTimestampFormats
    ELSE absolute_entries(batch, p.ts, min_datetime(p.ts))

\* the entries before the sort, or the error raised
build_entries(batch) == entries_of(batch, parse_loop(batch))

\* lines 121-122
sorted_or_error(b) == IF IsError(b) THEN b ELSE Ok(sort_by_offset(b.list))

normalize_entries(batch) == sorted_or_error(build_entries(batch))

(***************************************************************************)
(* srt_timestamp and build_srt                                             *)
(***************************************************************************)
\* max(0, seconds): seconds when seconds > 0, otherwise 0
clamp(x) == IF LtF(Whole(0), x) THEN x ELSE Whole(0)

\* the four fields of the time code, before they are formatted
srt_fields(s) ==
    [hours |-> s.w \div SecondsPerHour,
     minutes |-> (s.w % SecondsPerHour) \div SecondsPerMinute,
     secs |-> (s.w % SecondsPerHour) % SecondsPerMinute,
     millis |-> RoundMs(s.f)]

\* f"{int(hours):02}:{int(minutes):02}:{int(secs):02},{int(round(millis * 1000)):03}"
format_fields(p) ==
    Pad(p.hours, 2) \o <<":">> \o Pad(p.minutes, 2) \o <<":">>
    \o Pad(p.secs, 2) \o <<",">> \o Pad(p.millis, 3)

IntOfNaNError ==
    [k |-> "error", type |-> "ValueError",
     msg |-> "cannot convert float NaN to integer", arg |-> <<>>]

\* the str that srt_timestamp returns
Rendered(s) == [k |-> "str", s |-> s]

\* divmod of an infinite value gives NaN fields, and int() of them raises
format_clamped(s) ==
    IF s.k # "fin" THEN IntOfNaNError
    ELSE Rendered(format_fields(srt_fields(s)))

srt_timestamp(x) == format_clamped(clamp(x))

Dash == [k |-> "em-dash"]

\* caption_lines of build_srt: which lines a caption holds and the values
\* they show
caption_lines(e) ==
    <<[label |-> "Time", text |-> e.display_timestamp]>>
    \o (IF e.speed # None THEN <<[label |-> "Speed", speed |-> e.speed]>> ELSE <<>>)
    \o (IF e.latitude # None \/ e.longitude # None
        THEN <<[label |-> "Lat/Lon",
                lat |-> IF e.latitude # None THEN e.latitude ELSE Dash,
                lon |-> IF e.longitude # None THEN e.longitude ELSE Dash]>>
        ELSE <<>>)

\* end_time of caption idx (1-based)
end_time_fallback_everywhere(es, idx) == AddOne(es[idx].offset_seconds)

end_time(es, idx) ==
    IF idx < Len(es) THEN es[idx + 1].offset_seconds
    ELSE AddOne(es[idx].offset_seconds)

\* One block: the index line, the two times handed to srt_timestamp with
\* their renderings, and the caption lines.
block(idx, entry, end) ==
    [index |-> Digits(idx),
     start |-> entry.offset_seconds,
     end |-> end,
     start_code |-> srt_timestamp(entry.offset_seconds),
     end_code |-> srt_timestamp(end),
     lines |-> caption_lines(entry)]

build_srt(es) == [idx \in 1..Len(es) |-> block(idx, es[idx], end_time(es, idx))]

\* line 166: build_srt raises what srt_timestamp raised, before write_text
write_text(blocks, destination) ==
    IF \E i \in 1..Len(blocks) :
          IsError(blocks[i].start_code) \/ IsError(blocks[i].end_code)
    THEN IntOfNaNError
    ELSE [k |-> "file", path |-> destination, blocks |-> blocks]

\* write_srt: the file and its content, or the error raised
write_srt(es, destination) == write_text(build_srt(es), destination)

(***************************************************************************)
(* Files, metadata payload, encoder, main.                                 *)
(***************************************************************************)
Path(p) == [k |-> "path", p |-> p]

FileNotFoundError(msg) ==
    [k |-> "error", type |-> "FileNotFoundError", msg |-> msg, arg |-> <<>>]

CalledProcessError(rc) ==
    [k |-> "error", type |-> "CalledProcessError", msg |-> "", arg |-> rc]

\* find_video_file on a folder whose globs give mp4 / ts matches
find_video_file(mp4, ts) ==
    IF mp4 THEN Path("video.mp4")
    ELSE IF ts THEN Path("video.ts")
    ELSE FileNotFoundError("No .mp4 or .ts file found in the provided folder")

find_metadata_file(json) ==
    IF json THEN Path("telemetry.json")
    ELSE FileNotFoundError("No .json metadata file found in the provided folder")

\* A decoded payload: a list, a mapping (each candidate key Absent, a list
\* or another JSON value), any other JSON value, or text that is no JSON.
List(items) == [t |-> "list", items |-> items]
Dict(data, ents, points) ==
    [t |-> "dict", data |-> data, entries |-> ents, points |-> points]
NotJson == [t |-> "not json"]

MalformedMetadataPayload ==
    [k |-> "error", type |-> "ValueError",
     msg |-> "Metadata JSON must be a list or contain a top-level 'data' array",
     arg |-> <<>>]

JSONDecodeError ==
    [k |-> "error", type |-> "ValueError", msg |-> "JSONDecodeError", arg |-> <<>>]

load_metadata(payload) ==
    IF payload.t = "not json" THEN JSONDecodeError
    ELSE IF payload.t = "list" THEN Ok(payload.items)
    ELSE IF payload.t = "dict" /\ payload.data.t = "list" THEN Ok(payload.data.items)
    ELSE IF payload.t = "dict" /\ payload.entries.t = "list" THEN Ok(payload.entries.items)
    ELSE IF payload.t = "dict" /\ payload.points.t = "list" THEN Ok(payload.points.items)
    ELSE MalformedMetadataPayload

OutputVideoPath == Path("output/video_with_overlay.mp4")
SrtOutputPath == Path("output/telemetry.srt")

\* output_video of main: --srt-only drops the (always set) --output-video
output_video(flag) == IF flag THEN None ELSE OutputVideoPath

\* the condition of line 203
encoder_requested_always(ov) == TRUE

encoder_requested(ov) == ov # None

\* the except clauses of main: how an exception of process_folder ends the run
SystemExit(msg, arg) == [k |-> "SystemExit", msg |-> msg, arg |-> arg]
Returned == [k |-> "returned"]
Uncaught(e) == [k |-> "uncaught", exc |-> e]

main_except(e) ==
    IF e.type = "FileNotFoundError" THEN SystemExit(e.msg, <<>>)
    ELSE IF e.type = "CalledProcessError"
         THEN SystemExit("ffmpeg failed with exit code", e.arg)
    ELSE Uncaught(e)

\* process_folder after normalize_entries returned or raised r: an exception
\* leaves process_folder before write_srt is reached.
after_normalize_best_effort(r) ==
    IF IsError(r) THEN [pc |-> "write_srt", entries |-> Ok(<<>>), exc |-> r, exit |-> None]
    ELSE [pc |-> "write_srt", entries |-> r, exc |-> None, exit |-> None]

after_normalize(r) ==
    IF IsError(r)
    THEN [pc |-> "done", entries |-> None, exc |-> r, exit |-> main_except(r)]
    ELSE [pc |-> "write_srt", entries |-> r, exc |-> None, exit |-> None]

(***************************************************************************)
(* Inputs of a run.                                                        *)
(***************************************************************************)
MaxBatch == 3        \* longest telemetry batch

\* the records a batch is made of; the last one has no timestamp key
RecordPool ==
    LET TsFive == Number(5)
        TsFiveText == Str(<<"5", ".", "0">>)
        TsTwo == Str(<<" ", "2">>)
        TsNaN == Str(<<"n", "a", "n">>)
        TsTen == Str(<<"2", "0", "2", "4", "-", "0", "1", "-", "0", "1", "T", "0", "0", ":", "0", "0", ":", "1", "0", "Z">>)
        TsZero == Str(<<"2", "0", "2", "4", "-", "0", "1", "-", "0", "1", "T", "0", "0", ":", "0", "0", ":", "0", "0", "Z">>)
        TsZeroOffset == Str(<<"2", "0", "2", "4", "-", "0", "1", "-", "0", "1", "T", "0", "1", ":", "0", "0", ":", "0", "0", ".", "0", "+", "0", "1", ":", "0", "0">>)
        TsClock == Str(<<"0", "0", ":", "0", "0", ":", "0", "5">>)
        TsBad == Str(<<"n", "o", "t", "-", "a", "-", "t", "i", "m", "e">>)
        TsInf == Str(<<"i", "n", "f">>)
    IN
    { Record(TsFive, Absent, Absent, Absent),
      Record(TsFiveText, Str(<<"3", "0">>), Number(48), Absent),
      Record(TsTwo, Str(<<"f", "a", "s", "t">>), Absent, Absent),
      Record(TsNaN, Absent, Absent, Absent),
      Record(TsInf, Absent, Absent, Absent),
      Record(TsTen, Number(30), Absent, Number(11)),
      Record(TsZero, Absent, Absent, Absent),
      Record(TsZeroOffset, Null, Absent, Absent),
      Record(TsClock, Absent, Absent, Absent),
      Record(TsBad, Absent, Absent, Absent),
      Record(Absent, Number(30), Absent, Absent) }

Batches == UNION {[1..n -> RecordPool] : n \in 0..MaxBatch}

\* what a mapping payload may hold under each candidate key
DictValues ==
    { Absent, Number(0),
      List(<<Record(Number(5), Absent, Absent, Absent)>>),
      List(<<Record(Str(<<"2", "0", "2", "4", "-", "0", "1", "-", "0", "1", "T", "0", "0", ":", "0", "0", ":", "1", "0", "Z">>), Absent, Absent, Absent)>>) }

Payloads ==
    {List(b) : b \in Batches}
    \cup {Dict(d, e, p) : d \in DictValues, e \in DictValues, p \in DictValues}
    \cup {Number(0), NotJson}

(***************************************************************************)
(* The run of main.                                                        *)
(***************************************************************************)
Init ==
    /\ pc = "main"
    /\ folder \in [is_dir : BOOLEAN]
    /\ srt_only \in BOOLEAN
    /\ video = None /\ records = None /\ entries = None /\ srt_file = None
    /\ ffmpeg_calls = 0
    /\ exc = None /\ exit = None
    /\ stdout = <<>>
    /\ value = None /\ out = None

\* an exception leaves process_folder and reaches the except clauses of main
Raise(e) ==
    /\ exc' = e
    /\ exit' = main_except(e)
    /\ pc' = "done"

\* lines 245-248
Main ==
    /\ pc = "main"
    /\ IF folder.is_dir
       THEN pc' = "find_video" /\ UNCHANGED exit
       ELSE pc' = "done" /\ exit' = SystemExit("Provided folder does not exist", <<>>)
    /\ UNCHANGED <<folder, srt_only, video, records, entries, srt_file,
                   ffmpeg_calls, exc, stdout, value, out>>

\* line 197
FindVideo ==
    /\ pc = "find_video"
    /\ \E mp4 \in BOOLEAN, ts \in BOOLEAN :
         \E r \in {find_video_file(mp4, ts)} :
            IF IsError(r)
            THEN Raise(r) /\ UNCHANGED video
            ELSE video' = r /\ pc' = "find_metadata" /\ UNCHANGED <<exc, exit>>
    /\ UNCHANGED <<folder, srt_only, records, entries, srt_file, ffmpeg_calls,
                   stdout, value, out>>

\* line 198
FindMetadata ==
    /\ pc = "find_metadata"
    /\ \E json \in BOOLEAN :
         \E r \in {find_metadata_file(json)} :
            IF IsError(r)
            THEN Raise(r)
            ELSE pc' = "load_metadata" /\ UNCHANGED <<exc, exit>>
    /\ UNCHANGED <<folder, srt_only, video, records, entries, srt_file,
                   ffmpeg_calls, stdout, value, out>>

\* line 199, the argument: load_metadata(metadata_file)
LoadMetadata ==
    /\ pc = "load_metadata"
    /\ \E payload \in Payloads :
         \E r \in {load_metadata(payload)} :
            IF IsError(r)
            THEN Raise(r) /\ UNCHANGED records
            ELSE records' = r /\ pc' = "normalize" /\ UNCHANGED <<exc, exit>>
    /\ UNCHANGED <<folder, srt_only, video, entries, srt_file, ffmpeg_calls,
                   stdout, value, out>>

\* line 199, the call: normalize_entries(...)
Normalize ==
    /\ pc = "normalize"
    /\ \E a \in {after_normalize(normalize_entries(records.list))} :
          /\ pc' = a.pc
          /\ entries' = a.entries
          /\ exc' = a.exc
          /\ exit' = a.exit
    /\ UNCHANGED <<folder, srt_only, video, records, srt_file, ffmpeg_calls,
                   stdout, value, out>>

\* line 200
WriteSrt ==
    /\ pc = "write_srt"
    /\ \E f \in {write_srt(entries.list, SrtOutputPath)} :
          IF IsError(f)
          THEN Raise(f) /\ UNCHANGED srt_file
          ELSE srt_file' = f /\ pc' = "encode" /\ UNCHANGED <<exc, exit>>
    /\ UNCHANGED <<folder, srt_only, video, records, entries, ffmpeg_calls,
                   stdout, value, out>>

\* lines 202-205 with an output path: ffmpeg runs and exits with rc
RunFfmpeg ==
    /\ pc = "encode"
    /\ encoder_requested(output_video(srt_only))
    /\ ffmpeg_calls' = ffmpeg_calls + 1
    /\ \E rc \in {0, 1} :
         IF rc # 0
         THEN Raise(CalledProcessError(rc))
         ELSE pc' = "report" /\ UNCHANGED <<exc, exit>>
    /\ UNCHANGED <<folder, srt_only, video, records, entries, srt_file,
                   stdout, value, out>>

\* lines 202-206 without an output path
SkipFfmpeg ==
    /\ pc = "encode"
    /\ ~encoder_requested(output_video(srt_only))
    /\ pc' = "report"
    /\ UNCHANGED <<folder, srt_only, video, records, entries, srt_file,
                   ffmpeg_calls, exc, exit, stdout, value, out>>

\* lines 264-268; output_path is the path process_folder returned
Report ==
    /\ pc = "report"
    /\ stdout' = <<[text |-> "SRT written to", path |-> srt_file.path]>>
                 \o (IF ~encoder_requested(output_video(srt_only))
                     THEN <<[text |-> "No video rendering requested", path |-> None]>>
                     ELSE <<[text |-> "Overlay video written to",
                             path |-> output_video(srt_only)]>>)
    /\ exit' = Returned
    /\ pc' = "done"
    /\ UNCHANGED <<folder, srt_only, video, records, entries, srt_file,
                   ffmpeg_calls, exc, value, out>>

Next ==
    \/ Main
    \/ FindVideo
    \/ FindMetadata
    \/ LoadMetadata
    \/ Normalize
    \/ WriteSrt
    \/ RunFfmpeg
    \/ SkipFfmpeg
    \/ Report

Spec == Init /\ [][Next]_vars

(***************************************************************************)
(* parse_timestamp applied to one value.                                   *)
(***************************************************************************)
\* numbers, numeric texts, ISO-8601 texts, clock texts and others, each text
\* also with a space before and after it
ParseCorpus ==
    LET Dates == {<<"2", "0", "2", "4", "-", "0", "1", "-", "0", "1">>, <<"2", "0", "2", "4", "-", "0", "2", "-", "3", "0">>, <<"2", "0", "2", "4", "0", "1", "0", "1">>, <<"2", "0", "2", "4", "-", "1", "3", "-", "0", "1">>, <<"2", "0", "2", "4", "-", "0", "2", "-", "2", "9">>}
        Separators == {<<"T">>, <<" ">>}
        Times == {<<"0", "0", ":", "0", "0", ":", "1", "0">>, <<"1", "0", ":", "0", "0">>, <<"2", "5", ":", "0", "0", ":", "0", "0">>, <<"0", "0", ":", "0", "0", ":", "1", "0", ".", "5">>, <<"1", "0">>, <<"1", "0", ":", "0", "0", ":", "6", "0">>,
                  <<"1", ":", "0", "0", ":", "0", "0">>}
        Zones == {<<>>, <<"Z">>, <<"+", "0", "1", ":", "0", "0">>, <<"-", "0", "5", ":", "3", "0">>}
        Iso == Dates \cup {d \o a \o b \o c : d \in Dates, a \in Separators,
                                                b \in Times, c \in Zones}
        Numbers == {<<"5">>, <<"-", "5">>, <<"1", ".", "5">>, <<"1", "7", "0", "0", "0", "0", "0", "0", "0", "0">>, <<"1", "e", "3">>, <<"n", "a", "n">>, <<"i", "n", "f">>, <<".", "5">>,
                    <<"3", "6", "6", "1", ".", "2", "0", "0", "5">>, <<"5", ".">>, <<"+", "5">>, <<"1", ".", "5", ".", "5">>, <<"5", "e">>, <<"-", "-", "5">>, <<"-", "0", ".", "2", "5">>, <<"1", "5", "e", "-", "1">>}
        Clocks == {h \o <<":">> \o m \o <<":">> \o s \o f \o z :
                      h \in {<<"1", "2">>, <<"1">>, <<"2", "4">>}, m \in {<<"0", "0">>, <<"2">>, <<"6", "0">>},
                      s \in {<<"0", "0">>, <<"3">>, <<"5", "9">>, <<"6", "0">>},
                      f \in {<<>>, <<".", "5">>, <<".", "1", "2", "3", "4", "5", "6">>, <<".", "1", "2", "3", "4", "5", "6", "7">>, <<".">>}, z \in {<<>>, <<"Z">>}}
        Other == {<<"n", "o", "t", "-", "a", "-", "t", "i", "m", "e">>, <<>>, <<"Z">>, <<"1", "2", ":", "0", "0">>, <<"1", "2", ":", "0", "0", ":", "0", "0", ":", "0", "0">>}
        Spaces == {<<>>, <<" ">>}
    IN {Number(n) : n \in {-3, 0, 5}}
       \cup {Str(l \o b \o r) : l \in Spaces, r \in Spaces,
                                  b \in Iso \cup Numbers \cup Clocks \cup Other}

InitParse ==
    /\ pc = "parse"
    /\ value \in ParseCorpus
    /\ out = None
    /\ folder = None /\ srt_only = FALSE /\ video = None /\ records = None
    /\ entries = None /\ srt_file = None /\ ffmpeg_calls = 0
    /\ exc = None /\ exit = None /\ stdout = <<>>

ParseTimestamp ==
    /\ pc = "parse"
    /\ out' = parse_timestamp(value)
    /\ pc' = "parsed"
    /\ UNCHANGED <<folder, srt_only, video, records, entries, srt_file,
                   ffmpeg_calls, exc, exit, stdout, value>>

NextParse == ParseTimestamp

SpecParse == InitParse /\ [][NextParse]_vars

(***************************************************************************)
(* srt_timestamp applied to one non-negative number of seconds.            *)
(***************************************************************************)
SrtWholeSeconds == {0, 59, 3599, 3661, 86399, 90000}

SrtInputs == {Fin(w, f) : w \in SrtWholeSeconds, f \in 0..(TicksPerSecond - 1)}

InitSrt ==
    /\ pc = "srt"
    /\ value \in SrtInputs
    /\ out = None
    /\ folder = None /\ srt_only = FALSE /\ video = None /\ records = None
    /\ entries = None /\ srt_file = None /\ ffmpeg_calls = 0
    /\ exc = None /\ exit = None /\ stdout = <<>>

SrtTimestamp ==
    /\ pc = "srt"
    /\ out' = srt_timestamp(value)
    /\ pc' = "rendered"
    /\ UNCHANGED <<folder, srt_only, video, records, entries, srt_file,
                   ffmpeg_calls, exc, exit, stdout, value>>

NextSrt == SrtTimestamp

SpecSrt == InitSrt /\ [][NextSrt]_vars

(***************************************************************************)
(* Properties of normalize_entries.                                        *)
(***************************************************************************)
\* normalize_entries has been called on the loaded batch
Normalized == records # None /\ pc \notin {"load_metadata", "normalize"}

\* x <= y on floats
LeF(x, y) == LtF(x, y) \/ (x.k # "nan" /\ x = y)

Injections(n) == {p \in [1..n -> 1..n] : \A i, j \in 1..n : p[i] = p[j] => i = j}

\* no entry is followed by one of a smaller offset
SortedByOffset(es) ==
    \A i, j \in 1..Len(es) :
        i < j => ~LtF(es[j].offset_seconds, es[i].offset_seconds)

\* es holds the elements of inp, those of equal offset in their order in inp
StablePermutation(es, inp) ==
    /\ Len(es) = Len(inp)
    /\ \E p \in Injections(Len(inp)) :
          /\ \A i \in 1..Len(es) : es[i] = inp[p[i]]
          /\ \A i, j \in 1..Len(es) :
                (i < j /\ es[i].offset_seconds = es[j].offset_seconds) => p[i] < p[j]

SortedStable(es, b) ==
    ~IsError(b) /\ SortedByOffset(es) /\ StablePermutation(es, b.list)

\* C1: whenever normalize_entries returns a list, the list is sorted
\* non-decreasing by offset_seconds and is a stable permutation of the
\* entries of the input records (one entry per record, equal offsets in
\* input order).
C1_SortedStablePermutation ==
    (Normalized /\ entries # None) =>
        SortedStable(entries.list, build_entries(records.list))

HasTimestamp(r) == r.timestamp # Absent
Parseable(r) == HasTimestamp(r) /\ ~IsError(parse_timestamp(r.timestamp))
IsAbsolute(r) == Parseable(r) /\ IsDatetime(parse_timestamp(r.timestamp))
IsNumeric(r) == Parseable(r) /\ ~IsDatetime(parse_timestamp(r.timestamp))

MixedBatch(b) ==
    /\ \A i \in 1..Len(b) : Parseable(b[i])
    /\ \E i \in 1..Len(b) : IsAbsolute(b[i])
    /\ \E i \in 1..Len(b) : IsNumeric(b[i])

\* C2: a batch whose timestamps all parse, at least one as Absolute and at
\* least one as Numeric, makes normalize_entries raise MixedTimestampFormats:
\* no entries are returned and nothing is written, wherever the Numeric and
\* Absolute records stand in the batch.
C2_MixedRejected ==
    (Normalized /\ MixedBatch(records.list)) =>
        exc = MixedTimestampFormats /\ entries = None /\ srt_file = None

\* a mixed batch that starts with a Numeric record and ends with an Absolute
\* one has been rejected
C2_Witness ==
    /\ Normalized /\ MixedBatch(records.list)
    /\ IsNumeric(records.list[1]) /\ IsAbsolute(records.list[Len(records.list)])
    /\ exc = MixedTimestampFormats

LacksTimestamp(b) == \E i \in 1..Len(b) : ~HasTimestamp(b[i])

FirstMissing(b) ==
    CHOOSE i \in 1..Len(b) : ~HasTimestamp(b[i]) /\ \A j \in 1..(i - 1) : HasTimestamp(b[j])

\* the error of the first record before position m whose timestamp does not
\* parse, or MissingTimestampField when there is none
ErrorUpTo(b, m) ==
    IF \E j \in 1..(m - 1) : ~Parseable(b[j])
    THEN parse_timestamp(b[CHOOSE j \in 1..(m - 1) :
                               ~Parseable(b[j]) /\ \A h \in 1..(j - 1) : Parseable(b[h])].timestamp)
    ELSE MissingTimestampField

\* C3 as stated: a batch with a record lacking the timestamp key always
\* fails with MissingTimestampField, whatever the other records contain.
C3_MissingAlwaysReported ==
    (Normalized /\ LacksTimestamp(records.list)) =>
        exc = MissingTimestampField /\ entries = None

\* C3 amended: a batch with a record lacking the timestamp key always fails
\* and yields no entries and no subtitle file; the error is
\* MissingTimestampField exactly when every record before the first key-less
\* record has a parseable timestamp, and otherwise the
\* UnsupportedTimestampFormat error of the first such record that has none.
C3_MissingOrEarlierUnsupported ==
    (Normalized /\ LacksTimestamp(records.list)) =>
        /\ entries = None /\ srt_file = None
        /\ exc = ErrorUpTo(records.list, FirstMissing(records.list))
        /\ exc.msg \in {MissingTimestampField.msg, "Unsupported timestamp format"}

\* a batch whose key-less record is neither first nor last, after a valid
\* record and before an unparseable one, fails with MissingTimestampField
C3_Witness ==
    /\ Normalized /\ Len(records.list) = 3
    /\ Parseable(records.list[1])
    /\ ~HasTimestamp(records.list[2])
    /\ HasTimestamp(records.list[3]) /\ ~Parseable(records.list[3])
    /\ exc = MissingTimestampField /\ entries = None

AbsoluteBatch(b) == Len(b) > 0 /\ \A i \in 1..Len(b) : IsAbsolute(b[i])

Stamp(r) == parse_timestamp(r.timestamp)

\* a record of b holding the earliest instant
Earliest(b) == CHOOSE i \in 1..Len(b) : \A j \in 1..Len(b) : ~LtD(Stamp(b[j]), Stamp(b[i]))

OffsetsFromMinimum(es, b, start) ==
    /\ Len(es) = Len(b)
    /\ \E p \in Injections(Len(b)) :
          \A i \in 1..Len(es) :
             /\ es[i].offset_seconds = total_seconds(Stamp(b[p[i]]), start)
             /\ es[i].display_timestamp = isoformat(Stamp(b[p[i]]))
    /\ \A i \in 1..Len(es) : LeF(Whole(0), es[i].offset_seconds)
    /\ es[1].offset_seconds = Whole(0)
    /\ es[1].display_timestamp = isoformat(start)

\* C4: in absolute mode every entry's offset is its instant minus the least
\* instant of the batch, so every offset is >= 0, the first entry of the
\* sorted output has offset 0 and is the entry of a record holding the
\* earliest instant.
C4_AbsoluteOffsets ==
    (Normalized /\ entries # None /\ AbsoluteBatch(records.list)) =>
        OffsetsFromMinimum(entries.list, records.list,
                           Stamp(records.list[Earliest(records.list)]))

\* an absolute batch whose earliest instant is not in the first record
C4_Witness ==
    /\ Normalized /\ entries # None /\ AbsoluteBatch(records.list)
    /\ Len(records.list) >= 2
    /\ LtD(Stamp(records.list[2]), Stamp(records.list[1]))
    /\ entries.list[1].offset_seconds = Whole(0)
    /\ entries.list[1].display_timestamp # isoformat(Stamp(records.list[1]))

(***************************************************************************)
(* Properties of build_srt and srt_timestamp.                              *)
(***************************************************************************)
CaptionsOf(blocks, es) ==
    /\ Len(blocks) = Len(es)
    /\ \A i \in 1..Len(es) :
          /\ AllDigits(blocks[i].index) /\ ToNat(blocks[i].index) = i
          /\ blocks[i].start = es[i].offset_seconds
          /\ blocks[i].end = IF i < Len(es) THEN es[i + 1].offset_seconds
                             ELSE AddOne(es[i].offset_seconds)

\* C5: the subtitle file holds one caption per entry, numbered 1..N in the
\* order of the entries; caption i starts at the offset of entry i and ends
\* at the offset of entry i+1, the last one at its own offset plus 1.0.
C5_Captions ==
    srt_file # None => CaptionsOf(srt_file.blocks, entries.list)

\* a file of three captions whose second one starts and ends at different
\* offsets taken from its own entry and from the next
C5_Witness ==
    /\ srt_file # None /\ Len(srt_file.blocks) = 3
    /\ LtF(srt_file.blocks[2].start, srt_file.blocks[2].end)
    /\ srt_file.blocks[2].end = entries.list[3].offset_seconds
    /\ srt_file.blocks[3].end = AddOne(entries.list[3].offset_seconds)

Field(s, from, to) == ToNat(SubSeq(s, from, to))

\* the milliseconds a time code HH:MM:SS,mmm stands for
CodeMillis(s) ==
    ((Field(s, 1, 2) * SecondsPerHour + Field(s, 4, 5) * SecondsPerMinute
      + Field(s, 7, 8)) * MsPerSecond) + Field(s, 10, 12)

Distance(a, b) == IF a < b THEN b - a ELSE a - b

\* s is HH:MM:SS,mmm (two hour digits) for x rounded to the millisecond
TimeCodeOf(s, x) ==
    /\ Len(s) = 12
    /\ s[3] = ":" /\ s[6] = ":" /\ s[9] = ","
    /\ \A i \in {1, 2, 4, 5, 7, 8, 10, 11, 12} : IsDigit(s[i])
    /\ Field(s, 4, 5) < SecondsPerMinute
    /\ Field(s, 7, 8) < SecondsPerMinute
    /\ 2 * Distance(CodeMillis(s) * TicksPerMs, x.w * TicksPerSecond + x.f) <= TicksPerMs

\* C6: a non-negative number of seconds is rendered HH:MM:SS,mmm with
\* minutes and seconds in 00..59, exactly three millisecond digits, hours
\* not wrapped, and the value of the input rounded to the nearest
\* millisecond, a round-up to a whole second carrying into the seconds;
\* 0 gives 00:00:00,000 and 3661.2005 gives 01:01:01,200.
C6_TimeCode ==
    pc = "rendered" =>
        /\ TimeCodeOf(out.s, value)
        /\ value = Whole(0) => out.s = <<"0", "0", ":", "0", "0", ":", "0", "0", ",", "0", "0", "0">>
        /\ value = Fin(3661, 2005) => out.s = <<"0", "1", ":", "0", "1", ":", "0", "1", ",", "2", "0", "0">>

(***************************************************************************)
(* Properties of parse_timestamp.                                          *)
(***************************************************************************)
Raises(r) == r.k = "ValueError"

NumericRule(v) == v.t = "number" \/ ~Raises(float_of_stripped(strip(v.s)))

LaterRule(v) ==
    /\ v.t = "str"
    /\ \/ ~Raises(fromisoformat(iso_candidate(strip(v.s))))
       \/ ~Raises(strptime_clock(strip(v.s), TRUE))
       \/ ~Raises(strptime_clock(strip(v.s), FALSE))

Classified(v, r) ==
    /\ NumericRule(v) => r.k \in {"fin", "nan", "inf"}
    /\ (~NumericRule(v) /\ LaterRule(v)) => IsDatetime(r)
    /\ IsError(r) <=> (~NumericRule(v) /\ ~LaterRule(v))
    /\ IsError(r) => r = UnsupportedTimestampFormat(strip(v.s))

\* C10: a value the numeric rules accept (a native number, or a string that
\* float() accepts after trimming) is Numeric even when a later rule accepts
\* it too; a value only the ISO-8601 or the two clock rules accept is
\* Absolute; the UnsupportedTimestampFormat error is raised exactly when no
\* rule accepts the value, and carries the trimmed value.
C10_FirstMatchingRule ==
    pc = "parsed" => Classified(value, out)

\* a string both float() and fromisoformat accept has been classified Numeric
C10_Witness ==
    /\ pc = "parsed" /\ value.t = "str"
    /\ NumericRule(value) /\ LaterRule(value)
    /\ out.k = "fin"

(***************************************************************************)
(* Properties of process_folder and main.                                  *)
(***************************************************************************)
\* C7: when load_metadata or normalize_entries raised (MissingTimestampField,
\* UnsupportedTimestampFormat, MixedTimestampFormats,
\* MalformedMetadataPayload or any other of their errors), no subtitle file
\* has been written and ffmpeg has not been run; a subtitle file exists only
\* when both returned.
C7_NoSrtOnFailure ==
    /\ (exc # None /\ exc.type # "CalledProcessError") =>
           srt_file = None /\ ffmpeg_calls = 0
    /\ srt_file # None =>
           records # None /\ entries # None /\ ~IsError(normalize_entries(records.list))

\* a batch whose first record is valid and whose second has an unsupported
\* timestamp ended the run with nothing written
C7_Witness ==
    /\ pc = "done" /\ records # None /\ Len(records.list) >= 2
    /\ Parseable(records.list[1])
    /\ exc # None /\ exc.msg = "Unsupported timestamp format"
    /\ srt_file = None /\ ffmpeg_calls = 0

\* C8: every finished run of main is a success that printed the written
\* paths, or one of three failures (input file missing, telemetry
\* malformed, ffmpeg exit code) that main reported as a single message.
C8_FourReportedOutcomes ==
    pc = "done" =>
        \/ exit = Returned /\ exc = None /\ Len(stdout) = 2
        \/ exit.k = "SystemExit"
           /\ (exc = None \/ exc.type = "FileNotFoundError")
        \/ exit.k = "SystemExit"
           /\ exc # None /\ exc.type \in {"ValueError", "TypeError"}
        \/ exit.k = "SystemExit"
           /\ exc # None /\ exc.type = "CalledProcessError"

SrtOnlyReport ==
    <<[text |-> "SRT written to", path |-> SrtOutputPath],
      [text |-> "No video rendering requested", path |-> None]>>

\* C9: ffmpeg runs at most once, only after the subtitle file was written
\* and only with an output video path; with --srt-only it never runs, and a
\* run that wrote the subtitle file returns having printed the subtitle path
\* and no video path.
C9_EncoderOnlyWhenConfigured ==
    /\ ffmpeg_calls <= 1
    /\ ffmpeg_calls > 0 => (srt_file # None /\ output_video(srt_only) # None)
    /\ srt_only => ffmpeg_calls = 0
    /\ (srt_only /\ srt_file # None /\ pc = "done") =>
           exit = Returned /\ stdout = SrtOnlyReport

\* a run with --srt-only that wrote three captions and returned
C9_Witness ==
    /\ srt_only /\ pc = "done" /\ exit = Returned
    /\ srt_file # None /\ Len(srt_file.blocks) = MaxBatch
    /\ ffmpeg_calls = 0 /\ stdout = SrtOnlyReport

====
